---------------------------- MODULE Spec2Model ----------------------------
(***************************************************************************)
(* Model of pkg/asset/manifests/cloudproviderconfig.go: the asset node     *)
(* CloudProviderConfig with its output slot (ConfigMap, File) and its      *)
(* operations Generate, Files and Load.                                    *)
(*                                                                         *)
(* One Generate pass is one atomic action: the node is a synchronous       *)
(* computation that either returns before line 210 (slot untouched) or     *)
(* assigns both fields at lines 210-214.  The resolved install config, the *)
(* cluster id and the answers of the external calls (session, account id,  *)
(* delegates, serializers) are the input of the pass.                      *)
(***************************************************************************)
EXTENDS Naturals, Sequences, FiniteSets, TLC

VARIABLES
    ConfigMap,  \* cpc.ConfigMap: Nil or the stored config map
    File,       \* cpc.File: Nil or the stored file
    op,         \* the last operation called on the node: "new", "Generate", "Load"
    in,         \* the dependencies handed to the last Generate
    ret,        \* what the last operation returned
    again       \* the last Generate directly followed a Generate with the same input

vars == <<ConfigMap, File, op, in, ret, again>>

(***************************************************************************)
(* Bounds of the model.                                                    *)
(***************************************************************************)
\* how many distinct cluster ids (InfraID) the passes draw from
NumClusterIDs == 2

ClusterIDPool == <<"abcde", "xyz12", "k3", "m4">>
ClusterIDs == {ClusterIDPool[k] : k \in 1..NumClusterIDs}

(***************************************************************************)
(* Constants of the program.                                               *)
(***************************************************************************)
Nil == [nil |-> TRUE]          \* the nil pointer
NilError == "<nil>"            \* the nil error

manifestDir == "manifests"
cloudProviderConfigFileName == manifestDir \o "/" \o "cloud-provider-config.yaml"
cloudProviderConfigDataKey == "config"
cloudProviderConfigCABundleDataKey == "ca-bundle.pem"
cloudProviderEndpointsKey == "endpoints"

Name == "Cloud Provider Config"

\* the platform names of the switch, in the order of its arms
NoOpPlatforms == {"libvirt", "none", "baremetal", "ovirt"}
Enumerated == NoOpPlatforms \cup
              {"aws", "openstack", "azure", "gcp", "ibmcloud", "vsphere", "kubevirt"}
\* tags outside the switch: no platform set (Name() = ""), or a platform
\* added to the union without an arm
UnknownPlatforms == {"", "alibabacloud"}

C2SRegions == {"us-iso-east-1"}
StackCloud == "AzureStackCloud"
PublicCloud == "AzurePublicCloud"

(***************************************************************************)
(* The input of a pass: the resolved install config (only the fields the   *)
(* code reads), the cluster id, and the answers of the external calls.     *)
(* Exactly one platform is active, so the fields of the other platforms    *)
(* keep their zero value.  fail names the first external call of the pass  *)
(* that returns an error (calls after it are never made): "lookup" is the  *)
(* session or account lookup, "delegate" the per-platform config builder,  *)
(* "endpoints" json.Marshal of the endpoint table, "yaml" yaml.Marshal.    *)
(***************************************************************************)
ExternalError == "boom"

ZeroConfig ==
    [ platform |-> "", InfraID |-> "", fail |-> "none",
      AdditionalTrustBundle |-> "", AWSRegion |-> "",
      osConfigData |-> "", osCABundleData |-> "",
      AzureCloudName |-> "", MetaCloudName |-> "", AzureRegion |-> "",
      AzureARMEndpoint |-> "", AzureIsARO |-> FALSE,
      AzureResourceGroupName |-> "", AzureNetworkResourceGroupName |-> "",
      AzureVirtualNetwork |-> "", AzureComputeSubnet |-> "",
      GCPProjectID |-> "", GCPComputeSubnet |-> "",
      IBMCloudRegion |-> "",
      VSphereFolder |-> "", VSphereDatacenter |-> "", VSphereVCenter |-> "",
      KubevirtNamespace |-> "" ]

NoOpInputs ==
    { [ZeroConfig EXCEPT !.platform = p, !.InfraID = id] :
        p \in NoOpPlatforms \cup UnknownPlatforms, id \in ClusterIDs }

AWSInputs ==
    { [ZeroConfig EXCEPT !.platform = "aws", !.InfraID = id, !.fail = f,
                         !.AdditionalTrustBundle = tb, !.AWSRegion = r] :
        id \in ClusterIDs, f \in {"none", "yaml"},
        tb \in {"", "BUNDLE"}, r \in {"us-iso-east-1", "us-east-1"} }

OpenStackInputs ==
    { [ZeroConfig EXCEPT !.platform = "openstack", !.InfraID = id, !.fail = f,
                         !.osConfigData = "[Global]", !.osCABundleData = ca] :
        id \in ClusterIDs, f \in {"none", "delegate", "yaml"},
        ca \in {"", "CERT"} }

\* installConfig.Azure is built from Config.Azure.CloudName, so the two
\* cloud names the pass reads are the same value
AzureConfig(id, f, c, rg, n, v, s) ==
    [ZeroConfig EXCEPT !.platform = "azure", !.InfraID = id, !.fail = f,
                       !.AzureCloudName = c, !.MetaCloudName = c,
                       !.AzureRegion = "centralus",
                       !.AzureARMEndpoint =
                           IF c = StackCloud THEN "https://arm.stack" ELSE "",
                       !.AzureResourceGroupName = rg,
                       !.AzureNetworkResourceGroupName = n,
                       !.AzureVirtualNetwork = v,
                       !.AzureComputeSubnet = s]

\* every combination of the four overrides on the passes whose external
\* calls all succeed; a pass that fails drops its payload, so the failing
\* passes are enumerated without overrides
AzureInputs ==
    { AzureConfig(id, "none", c, rg, n, v, s) :
        id \in ClusterIDs, c \in {PublicCloud, StackCloud},
        rg \in {"", "custom-rg"}, n \in {"", "custom-nrg"},
        v \in {"", "custom-vnet"}, s \in {"", "custom-subnet"} }
    \cup
    { AzureConfig(id, f, c, "", "", "", "") :
        id \in ClusterIDs, c \in {PublicCloud, StackCloud},
        f \in {"lookup", "delegate", "endpoints", "yaml"} }

GCPInputs ==
    { [ZeroConfig EXCEPT !.platform = "gcp", !.InfraID = id, !.fail = f,
                         !.GCPProjectID = "proj",
                         !.GCPComputeSubnet = s] :
        id \in ClusterIDs, f \in {"none", "delegate", "yaml"},
        s \in {"", "custom-gcp-subnet"} }

IBMCloudInputs ==
    { [ZeroConfig EXCEPT !.platform = "ibmcloud", !.InfraID = id, !.fail = f,
                         !.IBMCloudRegion = "us-south"] :
        id \in ClusterIDs, f \in {"none", "lookup", "delegate", "yaml"} }

VSphereInputs ==
    { [ZeroConfig EXCEPT !.platform = "vsphere", !.InfraID = id, !.fail = f,
                         !.VSphereDatacenter = "dc1",
                         !.VSphereVCenter = "vcenter.local",
                         !.VSphereFolder = fo] :
        id \in ClusterIDs, f \in {"none", "delegate", "yaml"},
        fo \in {"", "/dc1/vm/custom"} }

KubevirtInputs ==
    { [ZeroConfig EXCEPT !.platform = "kubevirt", !.InfraID = id, !.fail = f,
                         !.KubevirtNamespace = "tenant"] :
        id \in ClusterIDs, f \in {"none", "delegate", "yaml"} }

Inputs ==
    NoOpInputs \cup AWSInputs \cup OpenStackInputs \cup AzureInputs \cup GCPInputs
        \cup IBMCloudInputs \cup VSphereInputs \cup KubevirtInputs

\* what a FileFetcher may hold on disk when Load is called
Fetchers == {"empty", "hasManifest"}

(***************************************************************************)
(* External collaborators.  Each conversion is modelled by what it does:   *)
(* it renders the fields it is given into a string.                        *)
(***************************************************************************)
\* errors.Wrap / errors.Wrapf: the message, then the cause
Wrap(err, msg) == msg \o ": " \o err

Bool(b) == IF b THEN "true" ELSE "false"

\* installConfig.Azure.Session(): the credentials and the environment of
\* the cloud the metadata names
Session(ic) ==
    [ Credentials |-> [ SubscriptionID |-> "sub-1", TenantID |-> "tenant-1",
                        ClientID |-> "client-1", ClientSecret |-> "secret-1" ],
      Environment |-> [ Name |-> ic.MetaCloudName,
                        ResourceManagerEndpoint |->
                            IF ic.AzureARMEndpoint # "" THEN ic.AzureARMEndpoint
                            ELSE "https://management.azure.com/" ] ]

\* Platform.ClusterResourceGroupName(infraID) of pkg/types/azure
ClusterResourceGroupName(ic, infraID) ==
    IF ic.AzureResourceGroupName # "" THEN ic.AzureResourceGroupName
    ELSE infraID \o "-rg"

\* azure.CloudProviderConfig.JSON()
AzureJSON(c) ==
    "{cloud:" \o c.CloudName
        \o ",tenantId:" \o c.TenantID
        \o ",subscriptionId:" \o c.SubscriptionID
        \o ",aadClientId:" \o c.AADClientID
        \o ",aadClientSecret:" \o c.AADClientSecret
        \o ",resourceGroup:" \o c.ResourceGroupName
        \o ",location:" \o c.GroupLocation
        \o ",resourcePrefix:" \o c.ResourcePrefix
        \o ",vnetResourceGroup:" \o c.NetworkResourceGroupName
        \o ",securityGroupName:" \o c.NetworkSecurityGroupName
        \o ",vnetName:" \o c.VirtualNetworkName
        \o ",subnetName:" \o c.SubnetName
        \o ",resourceManagerEndpoint:" \o c.ResourceManagerEndpoint
        \o ",aro:" \o Bool(c.ARO) \o "}"

\* json.Marshal(session.Environment)
JSONMarshal(env) ==
    "{name:" \o env.Name
        \o ",resourceManagerEndpoint:" \o env.ResourceManagerEndpoint \o "}"

\* gcpmanifests.CloudProviderConfig(infraID, projectID, subnet)
GCPCloudProviderConfig(infraID, projectID, subnetName) ==
    "[global] project-id=" \o projectID
        \o " node-tags=" \o infraID \o "-master," \o infraID \o "-worker"
        \o " node-instance-prefix=" \o infraID
        \o " subnetwork-name=" \o subnetName

\* ibmcloudmanifests.CloudProviderConfig(infraID, accountID, region)
IBMCloudProviderConfig(infraID, accountID, region) ==
    "[provider] accountID=" \o accountID \o " clusterID=" \o infraID
        \o " region=" \o region

\* vspheremanifests.CloudProviderConfig(folderPath, platform)
VSphereCloudProviderConfig(folderPath, ic) ==
    "[Workspace] server=" \o ic.VSphereVCenter
        \o " datacenter=" \o ic.VSphereDatacenter
        \o " folder=" \o folderPath

\* kubevirtmanifests.CloudProviderConfig.JSON()
KubevirtJSON(c) ==
    "{namespace:" \o c.Namespace \o ",infraID:" \o c.InfraID \o "}"

\* installConfig.IBMCloud.AccountID(ctx)
AccountID(ic) == "account-1"

\* the data keys in the order yaml.Marshal writes a map: sorted
SortedDataKeys ==
    << cloudProviderConfigCABundleDataKey, cloudProviderConfigDataKey,
       cloudProviderEndpointsKey >>

RECURSIVE DataLines(_, _)
DataLines(data, k) ==
    IF k > Len(SortedDataKeys) THEN ""
    ELSE LET key == SortedDataKeys[k]
         IN (IF key \in DOMAIN data
             THEN "  " \o key \o ": " \o data[key] \o "\n"
             ELSE "") \o DataLines(data, k + 1)

\* yaml.Marshal(cm) of ghodss/yaml: the fields in the order of their JSON
\* names, an empty data map omitted
YamlMarshal(cm) ==
    "apiVersion: " \o cm.APIVersion \o "\n"
        \o (IF DOMAIN cm.Data = {} THEN ""
            ELSE "data:\n" \o DataLines(cm.Data, 1))
        \o "kind: " \o cm.Kind \o "\n"
        \o "metadata:\n"
        \o "  creationTimestamp: null\n"
        \o "  name: " \o cm.Name \o "\n"
        \o "  namespace: " \o cm.Namespace \o "\n"

(***************************************************************************)
(* Generate, lines 74-216.                                                 *)
(***************************************************************************)
\* lines 79-89: the config map every pass starts from
NewConfigMap ==
    [ APIVersion |-> "v1", Kind |-> "ConfigMap",
      Namespace |-> "openshift-config", Name |-> "cloud-provider-config",
      Data |-> << >> ]

\* cm.Data[key] = value
SetData(cm, key, value) == [cm EXCEPT !.Data = (key :> value) @@ @]

\* the three ways an arm of the switch ends: return nil, return err, or
\* fall out of the switch with cm filled
Skip == [kind |-> "skip", err |-> NilError, cm |-> Nil]
Fail(err) == [kind |-> "fail", err |-> err, cm |-> Nil]
Emit(cm) == [kind |-> "emit", err |-> NilError, cm |-> cm]

\* lines 94-100
AWSRule(ic, cm) ==
    LET trustBundle == ic.AdditionalTrustBundle
    IN IF trustBundle = "" \/ ~(ic.AWSRegion \in C2SRegions)
       THEN Skip
       ELSE Emit(SetData(cm, cloudProviderConfigCABundleDataKey, trustBundle))

\* lines 102-110
OpenStackRule(ic, cm) ==
    IF ic.fail = "delegate"
    THEN Fail(Wrap(ExternalError, "failed to generate OpenStack provider config"))
    ELSE LET cm1 == SetData(cm, cloudProviderConfigDataKey, ic.osConfigData)
         IN IF ic.osCABundleData # ""
            THEN Emit(SetData(cm1, cloudProviderConfigCABundleDataKey,
                              ic.osCABundleData))
            ELSE Emit(cm1)

\* line 118
nsg(ic) == ic.InfraID \o "-nsg"

\* lines 119-122
nrg(ic) ==
    IF ic.AzureNetworkResourceGroupName # ""
    THEN ic.AzureNetworkResourceGroupName
    ELSE ClusterResourceGroupName(ic, ic.InfraID)

\* the virtual network override is ignored
MutVnet(ic) == ic.InfraID \o "-vnet"

\* lines 123-126
vnet(ic) ==
    IF ic.AzureVirtualNetwork # "" THEN ic.AzureVirtualNetwork
    ELSE ic.InfraID \o "-vnet"

\* lines 127-130
subnet(ic) ==
    IF ic.AzureComputeSubnet # "" THEN ic.AzureComputeSubnet
    ELSE ic.InfraID \o "-worker-subnet"

\* lines 131-146: the payload struct
azureConfig(ic, session) ==
    [ CloudName |-> ic.AzureCloudName,
      ResourceGroupName |-> ClusterResourceGroupName(ic, ic.InfraID),
      GroupLocation |-> ic.AzureRegion,
      ResourcePrefix |-> ic.InfraID,
      SubscriptionID |-> session.Credentials.SubscriptionID,
      TenantID |-> session.Credentials.TenantID,
      AADClientID |-> session.Credentials.ClientID,
      AADClientSecret |-> session.Credentials.ClientSecret,
      NetworkResourceGroupName |-> nrg(ic),
      NetworkSecurityGroupName |-> nsg(ic),
      VirtualNetworkName |-> vnet(ic),
      SubnetName |-> subnet(ic),
      ResourceManagerEndpoint |-> ic.AzureARMEndpoint,
      ARO |-> ic.AzureIsARO ]

\* the endpoint table is written for every cloud
MutIsStack(ic) == TRUE

\* line 152
IsStack(ic) == ic.MetaCloudName = StackCloud

\* lines 112-158
AzureRule(ic, cm) ==
    IF ic.fail = "lookup"
    THEN Fail(Wrap(ExternalError, "could not get azure session"))
    ELSE LET session == Session(ic)
         IN IF ic.fail = "delegate"
            THEN Fail(Wrap(ExternalError, "could not create cloud provider config"))
            ELSE LET cm1 == SetData(cm, cloudProviderConfigDataKey,
                                    AzureJSON(azureConfig(ic, session)))
                 IN IF IsStack(ic)
                    THEN IF ic.fail = "endpoints"
                         THEN Fail(Wrap(ExternalError,
                                        "could not serialize Azure Stack endpoints"))
                         ELSE Emit(SetData(cm1, cloudProviderEndpointsKey,
                                           JSONMarshal(session.Environment)))
                    ELSE Emit(cm1)

\* lines 160-163
gcpSubnet(ic) ==
    IF ic.GCPComputeSubnet # "" THEN ic.GCPComputeSubnet
    ELSE ic.InfraID \o "-worker-subnet"

\* lines 159-168
GCPRule(ic, cm) ==
    IF ic.fail = "delegate"
    THEN Fail(Wrap(ExternalError, "could not create cloud provider config"))
    ELSE Emit(SetData(cm, cloudProviderConfigDataKey,
                      GCPCloudProviderConfig(ic.InfraID, ic.GCPProjectID,
                                             gcpSubnet(ic))))

\* lines 169-178: the account lookup's error is returned as it is
IBMCloudRule(ic, cm) ==
    IF ic.fail = "lookup" THEN Fail(ExternalError)
    ELSE IF ic.fail = "delegate"
    THEN Fail(Wrap(ExternalError, "could not create cloud provider config"))
    ELSE Emit(SetData(cm, cloudProviderConfigDataKey,
                      IBMCloudProviderConfig(ic.InfraID, AccountID(ic),
                                             ic.IBMCloudRegion)))

\* lines 180-184
folderPath(ic) ==
    IF Len(ic.VSphereFolder) = 0
    THEN "/" \o ic.VSphereDatacenter \o "/vm/" \o ic.InfraID
    ELSE ic.VSphereFolder

\* lines 179-192
VSphereRule(ic, cm) ==
    IF ic.fail = "delegate"
    THEN Fail(Wrap(ExternalError, "could not create cloud provider config"))
    ELSE Emit(SetData(cm, cloudProviderConfigDataKey,
                      VSphereCloudProviderConfig(folderPath(ic), ic)))

\* lines 193-201
KubevirtRule(ic, cm) ==
    IF ic.fail = "delegate"
    THEN Fail(Wrap(ExternalError, "could not create cloud provider config"))
    ELSE Emit(SetData(cm, cloudProviderConfigDataKey,
                      KubevirtJSON([ Namespace |-> ic.KubevirtNamespace,
                                     InfraID |-> ic.InfraID ])))

\* the arm breaks out of the switch instead of returning
MutNoOpRule(ic, cm) == Emit(cm)

\* lines 92-93: the arm of the four platforms that need no config
NoOpRule(ic, cm) == Skip

\* the switch has no default arm: an unknown tag falls out of it like a
\* platform that needs no config
MutSwitch(ic, cm) ==
    CASE ic.platform \in NoOpPlatforms -> NoOpRule(ic, cm)
      [] ic.platform = "aws" -> AWSRule(ic, cm)
      [] ic.platform = "openstack" -> OpenStackRule(ic, cm)
      [] ic.platform = "azure" -> AzureRule(ic, cm)
      [] ic.platform = "gcp" -> GCPRule(ic, cm)
      [] ic.platform = "ibmcloud" -> IBMCloudRule(ic, cm)
      [] ic.platform = "vsphere" -> VSphereRule(ic, cm)
      [] ic.platform = "kubevirt" -> KubevirtRule(ic, cm)
      [] OTHER -> Skip

\* lines 91-204: the switch on installConfig.Config.Platform.Name()
Switch(ic, cm) ==
    CASE ic.platform \in NoOpPlatforms -> NoOpRule(ic, cm)
      [] ic.platform = "aws" -> AWSRule(ic, cm)
      [] ic.platform = "openstack" -> OpenStackRule(ic, cm)
      [] ic.platform = "azure" -> AzureRule(ic, cm)
      [] ic.platform = "gcp" -> GCPRule(ic, cm)
      [] ic.platform = "ibmcloud" -> IBMCloudRule(ic, cm)
      [] ic.platform = "vsphere" -> VSphereRule(ic, cm)
      [] ic.platform = "kubevirt" -> KubevirtRule(ic, cm)
      [] OTHER -> Fail("invalid Platform")

\* lines 206-209: yaml.Marshal(cm) and its error, wrapped
Marshal(ic, cm) ==
    IF ic.fail = "yaml"
    THEN [ err |-> Wrap(ExternalError, "failed to create " \o Name \o " manifest"),
           cmData |-> "" ]
    ELSE [ err |-> NilError, cmData |-> YamlMarshal(cm) ]

\* cm is serialized before the switch fills it
MutDerive(ic) ==
    LET r == Switch(ic, NewConfigMap)
    IN [ r |-> r,
         m |-> IF r.kind = "emit" THEN Marshal(ic, NewConfigMap)
               ELSE [err |-> NilError, cmData |-> ""] ]

\* lines 79-209: the part of a pass that reads only its input: the switch
\* on a new config map and, when the switch is left with cm filled, the
\* serialization of cm
Derive(ic) ==
    LET r == Switch(ic, NewConfigMap)
    IN [ r |-> r,
         m |-> IF r.kind = "emit" THEN Marshal(ic, r.cm)
               ELSE [err |-> NilError, cmData |-> ""] ]

\* Derive, evaluated once for each input
Derived == [ic \in Inputs |-> Derive(ic)]

\* cpc.ConfigMap is assigned before the serialization error is checked
MutStoreEarly(cpc, cm, m) ==
    IF m.err # NilError
    THEN [ ConfigMap |-> cm, File |-> cpc.File, err |-> m.err ]
    ELSE [ ConfigMap |-> cm,
           File |-> [ Filename |-> cloudProviderConfigFileName,
                      Data |-> m.cmData ],
           err |-> NilError ]

\* the new bytes are appended to the bytes of the file the node holds
MutStoreAppend(cpc, cm, m) ==
    IF m.err # NilError
    THEN [ ConfigMap |-> cpc.ConfigMap, File |-> cpc.File, err |-> m.err ]
    ELSE [ ConfigMap |-> cm,
           File |-> [ Filename |-> cloudProviderConfigFileName,
                      Data |-> IF cpc.File # Nil
                               THEN cpc.File.Data \o m.cmData
                               ELSE m.cmData ],
           err |-> NilError ]

\* lines 207-215: return the serialization error, or assign both fields
\* of the node.  cpc is the node before the call; the result is the node
\* after it and the error returned.
Store(cpc, cm, m) ==
    IF m.err # NilError
    THEN [ ConfigMap |-> cpc.ConfigMap, File |-> cpc.File, err |-> m.err ]
    ELSE [ ConfigMap |-> cm,
           File |-> [ Filename |-> cloudProviderConfigFileName,
                      Data |-> m.cmData ],
           err |-> NilError ]

\* lines 74-216: the node after Generate(ic) and the error returned
GenerateResult(cpc, ic) ==
    LET d == Derived[ic]
    IN IF d.r.kind = "emit"
       THEN Store(cpc, d.r.cm, d.m)
       ELSE [ ConfigMap |-> cpc.ConfigMap, File |-> cpc.File, err |-> d.r.err ]

Generate(ic) ==
    LET g == GenerateResult([ConfigMap |-> ConfigMap, File |-> File], ic)
    IN /\ ConfigMap' = g.ConfigMap
       /\ File' = g.File
       /\ op' = "Generate"
       /\ in' = ic
       /\ ret' = [err |-> g.err]
       /\ again' = (op = "Generate" /\ in = ic)

\* lines 219-224
Files == IF File # Nil THEN <<File>> ELSE << >>

\* Load reports the manifest the fetcher holds and takes it as the file
MutLoad(f) ==
    /\ op' = "Load"
    /\ ret' = [found |-> f = "hasManifest", err |-> NilError]
    /\ again' = FALSE
    /\ File' = IF f = "hasManifest"
               THEN [Filename |-> cloudProviderConfigFileName, Data |-> ""]
               ELSE File
    /\ UNCHANGED <<ConfigMap, in>>

\* lines 227-229
Load(f) ==
    /\ op' = "Load"
    /\ ret' = [found |-> FALSE, err |-> NilError]
    /\ again' = FALSE
    /\ UNCHANGED <<ConfigMap, File, in>>

Init ==
    /\ ConfigMap = Nil
    /\ File = Nil
    /\ op = "new"
    /\ in = ZeroConfig
    /\ ret = [err |-> NilError]
    /\ again = FALSE

Next ==
    \/ \E ic \in Inputs : Generate(ic)
    \/ \E f \in Fetchers : Load(f)

Spec == Init /\ [][Next]_vars

(***************************************************************************)
(* The claims.                                                             *)
(***************************************************************************)
SlotUnchanged == ConfigMap' = ConfigMap /\ File' = File

DataKeys ==
    { cloudProviderConfigDataKey, cloudProviderConfigCABundleDataKey,
      cloudProviderEndpointsKey }

\* C1: after any Generate on a platform that needs no config (libvirt,
\* none, baremetal, ovirt), Generate has returned no error and Files() is
\* empty, whatever passes the node has gone through before.
C1_NoOpFilesEmpty ==
    (op = "Generate" /\ in.platform \in NoOpPlatforms)
        => (ret.err = NilError /\ Files = << >>)

\* C2: a Generate that returns an error leaves ConfigMap and File exactly
\* as they were before the call.
C2_FailureKeepsSlot ==
    [][(op' = "Generate" /\ ret'.err # NilError) => SlotUnchanged]_vars

\* a pass failed in yaml.Marshal while the node held the pair of an
\* earlier pass on another platform
C2_Witness ==
    /\ op = "Generate" /\ in.fail = "yaml" /\ ret.err # NilError
    /\ File # Nil /\ ConfigMap # Nil
    /\ ~(cloudProviderConfigDataKey \in DOMAIN ConfigMap.Data)
    /\ in.platform = "azure"

\* C3: on aws, Generate returns nil with an empty file list when the trust
\* bundle is empty or the region is not a C2S region; otherwise Files() has
\* exactly one entry whose data is exactly {"ca-bundle.pem": trustBundle};
\* Generate fails on aws only in the serialization.
C3_AWS ==
    (op = "Generate" /\ in.platform = "aws")
        => IF in.AdditionalTrustBundle = "" \/ in.AWSRegion \notin C2SRegions
           THEN ret.err = NilError /\ Files = << >>
           ELSE /\ ret.err # NilError => in.fail = "yaml"
                /\ ret.err = NilError =>
                     /\ Len(Files) = 1
                     /\ DOMAIN ConfigMap.Data = {cloudProviderConfigCABundleDataKey}
                     /\ ConfigMap.Data[cloudProviderConfigCABundleDataKey]
                            = in.AdditionalTrustBundle

\* C4 as stated: for a tag outside the enumerated platform names Generate
\* returns "invalid Platform" and Files() is empty; for a tag of the
\* enumerated set the default arm is not taken.
C4_UnknownFilesEmpty ==
    /\ (op = "Generate" /\ in.platform \notin Enumerated)
           => (ret.err = "invalid Platform" /\ Files = << >>)
    /\ (op = "Generate" /\ in.platform \in Enumerated)
           => ret.err # "invalid Platform"

\* C4 as amended: for a tag outside the enumerated platform names Generate
\* returns "invalid Platform" and leaves ConfigMap and File as they were
\* before the call (so Files() is empty when the node held no file); for a
\* tag of the enumerated set the default arm is not taken.
C4_UnknownKeepsSlot ==
    /\ [][(op' = "Generate" /\ in'.platform \notin Enumerated)
             => (ret'.err = "invalid Platform" /\ SlotUnchanged)]_vars
    /\ []((op = "Generate" /\ in.platform \in Enumerated)
             => ret.err # "invalid Platform")
    /\ []((op = "Generate" /\ in.platform \notin Enumerated /\ File = Nil)
             => Files = << >>)

\* Generate on an unknown tag has returned while the node holds the file
\* of an earlier pass
C4_Witness ==
    /\ op = "Generate" /\ in.platform \notin Enumerated
    /\ ret.err = "invalid Platform" /\ Len(Files) = 1

C6_Idempotent ==
    [][(op = "Generate" /\ op' = "Generate" /\ in' = in)
          => (ret' = ret /\ SlotUnchanged)]_vars

\* the second of two Generate calls with the same input has emitted a file
C6_Witness ==
    /\ op = "Generate" /\ again /\ ret.err = NilError
    /\ Derived[in].r.kind = "emit" /\ Len(Files) = 1

\* C7: on azure a successful Generate stores data with the "config" key,
\* and with the "endpoints" key, holding the serialized endpoint table of
\* the session, exactly when the cloud name is the Azure Stack one; a
\* failure of the session, of the payload serialization or of the endpoint
\* serialization is returned (the session's first) and nothing is stored.
C7_Azure ==
    /\ []((op = "Generate" /\ in.platform = "azure") =>
            /\ ret.err = NilError =>
                 /\ ConfigMap # Nil
                 /\ cloudProviderConfigDataKey \in DOMAIN ConfigMap.Data
                 /\ cloudProviderEndpointsKey \in DOMAIN ConfigMap.Data
                        <=> in.MetaCloudName = StackCloud
                 /\ cloudProviderEndpointsKey \in DOMAIN ConfigMap.Data
                        => ConfigMap.Data[cloudProviderEndpointsKey]
                               = JSONMarshal(Session(in).Environment)
            /\ in.fail = "lookup"
                 => ret.err = "could not get azure session: " \o ExternalError
            /\ in.fail = "delegate"
                 => ret.err = "could not create cloud provider config: "
                                  \o ExternalError
            /\ (in.fail = "endpoints" /\ in.MetaCloudName = StackCloud)
                 => ret.err = "could not serialize Azure Stack endpoints: "
                                  \o ExternalError)
    /\ [][(op' = "Generate" /\ in'.platform = "azure" /\ ret'.err # NilError)
             => SlotUnchanged]_vars

\* a successful pass on Azure Stack has stored the endpoint table
C7_Witness ==
    /\ op = "Generate" /\ in.platform = "azure" /\ ret.err = NilError
    /\ in.MetaCloudName = StackCloud
    /\ cloudProviderEndpointsKey \in DOMAIN ConfigMap.Data

\* C8: the payload of a successful pass carries, on azure, the security
\* group "{id}-nsg" and, for the network resource group, the virtual
\* network and the subnet, the override when it is not empty and otherwise
\* ClusterResourceGroupName(id), "{id}-vnet" and "{id}-worker-subnet"; on
\* gcp, the subnet override when it is not empty and otherwise
\* "{id}-worker-subnet".
C8_DefaultNaming ==
    /\ (op = "Generate" /\ in.platform = "azure" /\ ret.err = NilError) =>
         ConfigMap.Data[cloudProviderConfigDataKey] =
           AzureJSON(
             [ azureConfig(in, Session(in)) EXCEPT
                 !.NetworkSecurityGroupName = in.InfraID \o "-nsg",
                 !.NetworkResourceGroupName =
                     IF in.AzureNetworkResourceGroupName = ""
                     THEN ClusterResourceGroupName(in, in.InfraID)
                     ELSE in.AzureNetworkResourceGroupName,
                 !.VirtualNetworkName =
                     IF in.AzureVirtualNetwork = ""
                     THEN in.InfraID \o "-vnet"
                     ELSE in.AzureVirtualNetwork,
                 !.SubnetName =
                     IF in.AzureComputeSubnet = ""
                     THEN in.InfraID \o "-worker-subnet"
                     ELSE in.AzureComputeSubnet ])
    /\ (op = "Generate" /\ in.platform = "gcp" /\ ret.err = NilError) =>
         ConfigMap.Data[cloudProviderConfigDataKey] =
           GCPCloudProviderConfig(
             in.InfraID, in.GCPProjectID,
             IF in.GCPComputeSubnet = ""
             THEN in.InfraID \o "-worker-subnet"
             ELSE in.GCPComputeSubnet)

\* a successful pass on azure with the virtual network overridden and the
\* subnet left to its default
C8_Witness ==
    /\ op = "Generate" /\ in.platform = "azure" /\ ret.err = NilError
    /\ in.AzureVirtualNetwork # "" /\ in.AzureComputeSubnet = ""
    /\ ConfigMap # Nil

\* C9: a stored ConfigMap never has an empty data map, and its keys are
\* among "config", "ca-bundle.pem" and "endpoints".
C9_DataNeverEmpty ==
    ConfigMap # Nil
        => (DOMAIN ConfigMap.Data # {} /\ DOMAIN ConfigMap.Data \subseteq DataKeys)

\* the node holds the config map of an aws pass, whose only key is
\* "ca-bundle.pem", after a later pass that needed no config
C9_Witness ==
    /\ ConfigMap # Nil
    /\ DOMAIN ConfigMap.Data = {cloudProviderConfigCABundleDataKey}
    /\ op = "Generate" /\ in.platform \in NoOpPlatforms

\* C10: ConfigMap is nil exactly when File is nil; when they are set, the
\* file has the fixed manifests path and the serialization of the stored
\* ConfigMap as its bytes, the ConfigMap has namespace "openshift-config"
\* and name "cloud-provider-config", and Files() has exactly that one
\* entry; otherwise Files() is empty.
C10_SlotPairing ==
    /\ ConfigMap = Nil <=> File = Nil
    /\ File # Nil =>
         /\ File.Filename = "manifests/cloud-provider-config.yaml"
         /\ File.Data = YamlMarshal(ConfigMap)
         /\ ConfigMap.Namespace = "openshift-config"
         /\ ConfigMap.Name = "cloud-provider-config"
         /\ Files = <<File>>
    /\ File = Nil => Files = << >>

\* the node holds a pair with two data keys after Generate and Load calls
C10_Witness ==
    /\ op = "Load" /\ File # Nil /\ ConfigMap # Nil
    /\ Cardinality(DOMAIN ConfigMap.Data) = 2

=============================================================================
